---- MODULE Spec2Model ----
(***************************************************************************)
(* lint_po_args.py: the escape decoder (unescape), the catalog parser      *)
(* (parse_po_data), the token linter (lint_translations) and the driver    *)
(* (run_on).                                                               *)
(*                                                                         *)
(* A Python str is a sequence of one-character strings.  An Optional value *)
(* is a sequence of length 0 (None) or 1 (the value), so that None can be  *)
(* compared with any value.  A failed assert is recorded with the source   *)
(* line of the assert statement ("at") and with the line number its        *)
(* message formats, if it formats one ("line").  Asserts are enabled, as   *)
(* they are when the script is run by its shebang line.                    *)
(***************************************************************************)
EXTENDS Integers, Sequences, FiniteSets, TLC

\* ------------------------------------------------------------------ bounds
\* Lines read by one parse_po_data call.
MaxLines == 5
\* Length of a line handed to unescape on its own.
MaxLineLen == 5
\* Length of a string that is escaped and decoded again.
MaxStrLen == 3
\* Translations handed to one lint_translations call.
MaxEntries == 2
\* Length of a text searched by findall on its own.
MaxTextLen == 5
\* Files named on one command line.
MaxFiles == 3

\* ------------------------------------------------------------ Optional, str
None == <<>>

Some(v) == <<v>>

RECURSIVE Join(_)
\* "".join(parts) for a list of strs
Join(parts) == IF parts = <<>> THEN <<>> ELSE Head(parts) \o Join(Tail(parts))

\* line.startswith(prefix)
StartsWith(line, prefix) ==
  /\ Len(line) >= Len(prefix)
  /\ SubSeq(line, 1, Len(prefix)) = prefix

\* line[len(prefix):]
StripPrefix(line, prefix) == SubSeq(line, Len(prefix) + 1, Len(line))

Q == "\""

BS == "\\"

TAB == "\t"

NL == "\n"

ESCAPE_DICT == ("t" :> TAB) @@ ("n" :> NL) @@ (BS :> BS) @@ (Q :> Q)

\* ---------------------------------------------------------------- unescape
\* The locals of unescape before the loop.
UnescapeStart == [parts |-> <<>>, is_quoted |-> FALSE, is_escaping |-> FALSE, err |-> None]

\* A variant of the loop body in which an escaped double quote is taken for a
\* closing quote.
UnescapeCharQuoteToggles(st, char) ==
  IF char = Q THEN [st EXCEPT !.is_quoted = ~@, !.is_escaping = FALSE]
  ELSE IF st.is_escaping
    THEN IF char \notin DOMAIN ESCAPE_DICT
           THEN [st EXCEPT !.is_escaping = FALSE, !.err = Some(45)]
           ELSE [st EXCEPT !.is_escaping = FALSE, !.parts = Append(@, ESCAPE_DICT[char])]
  ELSE IF ~st.is_quoted THEN [st EXCEPT !.err = Some(51)]
  ELSE IF char = BS THEN [st EXCEPT !.is_escaping = TRUE]
  ELSE [st EXCEPT !.parts = Append(@, char)]

\* One iteration of the loop of unescape on `char`.
UnescapeChar(st, char) ==
  IF st.is_escaping
    THEN IF char \notin DOMAIN ESCAPE_DICT
           THEN [st EXCEPT !.is_escaping = FALSE, !.err = Some(45)]
           ELSE [st EXCEPT !.is_escaping = FALSE, !.parts = Append(@, ESCAPE_DICT[char])]
  ELSE IF char = Q THEN [st EXCEPT !.is_quoted = ~@]
  ELSE IF ~st.is_quoted THEN [st EXCEPT !.err = Some(51)]
  ELSE IF char = BS THEN [st EXCEPT !.is_escaping = TRUE]
  ELSE [st EXCEPT !.parts = Append(@, char)]

\* A variant of the end of unescape that accepts a literal left open.
UnescapeEndUnterminatedOk(st) ==
  IF st.is_escaping THEN [err |-> Some(57), value |-> <<>>]
  ELSE [err |-> None, value |-> st.parts]

\* The two asserts after the loop, and the return value "".join(parts): parts
\* holds one-character strs, so the join is parts read as a str.
UnescapeEnd(st) ==
  IF st.is_quoted THEN [err |-> Some(56), value |-> <<>>]
  ELSE IF st.is_escaping THEN [err |-> Some(57), value |-> <<>>]
  ELSE [err |-> None, value |-> st.parts]

RECURSIVE UnescapeLoop(_, _)
\* The for loop of unescape over the characters left; it stops at a failed assert.
UnescapeLoop(st, rest) ==
  IF rest = <<>> \/ st.err # None THEN st
  ELSE UnescapeLoop(UnescapeChar(st, Head(rest)), Tail(rest))

\* unescape(line): [err, value], err the source line of the assert that failed.
unescape(line) ==
  LET st == UnescapeLoop(UnescapeStart, line)
  IN  IF st.err # None THEN [err |-> st.err, value |-> <<>>] ELSE UnescapeEnd(st)

\* ----------------------------------------------------------- parse_po_data
MSGID == <<"m", "s", "g", "i", "d", " ">>

MSGSTR == <<"m", "s", "g", "s", "t", "r", " ">>

\* The namedtuple Translation.
Translation(msgid, msgstr, first) ==
  [msgid |-> msgid, msgstr |-> msgstr, line_first |-> first]

\* The locals of parse_po_data before the loop; `line` is the loop variable.
ParseStart ==
  [line_first |-> None, msgid_parts |-> None, msgstr_parts |-> None,
   translations |-> <<>>, line |-> <<>>, err |-> None]

\* A failed assert of the source line `at`, whose message formats the line number `ln`.
Fail(st, at, ln) == [st EXCEPT !.err = Some([at |-> at, line |-> ln])]

\* A variant of the msgid block that counts lines from 0.
ParseMsgidZeroBased(st, i) ==
  IF ~StartsWith(st.line, MSGID) THEN st
  ELSE IF (st.msgid_parts = None) # (st.msgstr_parts = None) THEN Fail(st, 85, Some(i + 1))
  ELSE LET done == IF st.msgid_parts # None
                     THEN Append(st.translations,
                                 Translation(Join(st.msgid_parts[1]), Join(st.msgstr_parts[1]),
                                             st.line_first))
                     ELSE st.translations
           rest == StripPrefix(st.line, MSGID)
           nxt  == [st EXCEPT !.translations = done, !.line_first = Some(i),
                              !.msgid_parts = Some(<<>>), !.msgstr_parts = None, !.line = rest]
       IN  IF ~StartsWith(rest, <<Q>>) THEN Fail(nxt, 97, Some(i + 1)) ELSE nxt

\* A variant of the msgid block without the completeness assert: a msgid line
\* drops an entry whose translation has not been started.
ParseMsgidNoCheck(st, i) ==
  IF ~StartsWith(st.line, MSGID) THEN st
  ELSE LET done == IF st.msgid_parts # None /\ st.msgstr_parts # None
                     THEN Append(st.translations,
                                 Translation(Join(st.msgid_parts[1]), Join(st.msgstr_parts[1]),
                                             st.line_first))
                     ELSE st.translations
           rest == StripPrefix(st.line, MSGID)
           nxt  == [st EXCEPT !.translations = done, !.line_first = Some(i + 1),
                              !.msgid_parts = Some(<<>>), !.msgstr_parts = None, !.line = rest]
       IN  IF ~StartsWith(rest, <<Q>>) THEN Fail(nxt, 97, Some(i + 1)) ELSE nxt

\* A variant of the msgid block that records the entry's line only when it
\* closes a previous entry.
ParseMsgidNoLineFirst(st, i) ==
  IF ~StartsWith(st.line, MSGID) THEN st
  ELSE IF (st.msgid_parts = None) # (st.msgstr_parts = None) THEN Fail(st, 85, Some(i + 1))
  ELSE LET done == IF st.msgid_parts # None
                     THEN Append(st.translations,
                                 Translation(Join(st.msgid_parts[1]), Join(st.msgstr_parts[1]),
                                             st.line_first))
                     ELSE st.translations
           rest == StripPrefix(st.line, MSGID)
           nxt  == [st EXCEPT !.translations = done,
                              !.line_first = IF st.msgid_parts # None THEN Some(i + 1) ELSE @,
                              !.msgid_parts = Some(<<>>), !.msgstr_parts = None, !.line = rest]
       IN  IF ~StartsWith(rest, <<Q>>) THEN Fail(nxt, 97, Some(i + 1)) ELSE nxt

\* The block "if line.startswith("msgid "):" of the loop body.
ParseMsgid(st, i) ==
  IF ~StartsWith(st.line, MSGID) THEN st
  ELSE IF (st.msgid_parts = None) # (st.msgstr_parts = None) THEN Fail(st, 85, Some(i + 1))
  ELSE IF st.msgid_parts # None /\ st.msgstr_parts = None THEN Fail(st, 87, None)
  ELSE LET done == IF st.msgid_parts # None
                     THEN Append(st.translations,
                                 Translation(Join(st.msgid_parts[1]), Join(st.msgstr_parts[1]),
                                             st.line_first))
                     ELSE st.translations
           rest == StripPrefix(st.line, MSGID)
           nxt  == [st EXCEPT !.translations = done, !.line_first = Some(i + 1),
                              !.msgid_parts = Some(<<>>), !.msgstr_parts = None, !.line = rest]
       IN  IF ~StartsWith(rest, <<Q>>) THEN Fail(nxt, 97, Some(i + 1)) ELSE nxt

\* A variant of the msgstr block without the state assert: a second msgstr
\* line starts the translation afresh.
ParseMsgstrNoCheck(st, i) ==
  IF ~StartsWith(st.line, MSGSTR) THEN st
  ELSE [st EXCEPT !.msgstr_parts = Some(<<>>), !.line = StripPrefix(st.line, MSGSTR)]

\* The block "if line.startswith("msgstr "):" of the loop body.
ParseMsgstr(st, i) ==
  IF ~StartsWith(st.line, MSGSTR) THEN st
  ELSE IF st.line_first = None THEN Fail(st, 99, None)
  ELSE IF ~(st.msgid_parts # None /\ st.msgstr_parts = None) THEN Fail(st, 100, Some(i + 1))
  ELSE [st EXCEPT !.msgstr_parts = Some(<<>>), !.line = StripPrefix(st.line, MSGSTR)]

\* A variant of the tail of the loop body that always appends to the source.
ParseAppendToMsgid(st) ==
  LET u == unescape(st.line)
  IN  IF u.err # None THEN Fail(st, u.err[1], None)
      ELSE IF st.msgid_parts = None THEN Fail(st, 105, None)
      ELSE [st EXCEPT !.msgid_parts = Some(Append(@[1], u.value))]

\* The tail of the loop body: decode what is left of the line and append it.
\* The asserts of unescape carry no line number.
ParseAppend(st) ==
  LET u == unescape(st.line)
  IN  IF u.err # None THEN Fail(st, u.err[1], None)
      ELSE IF st.msgstr_parts = None
        THEN IF st.msgid_parts = None THEN Fail(st, 105, None)
             ELSE [st EXCEPT !.msgid_parts = Some(Append(@[1], u.value))]
      ELSE [st EXCEPT !.msgstr_parts = Some(Append(@[1], u.value))]

\* "if not line or line.startswith("#")"
IsSkipped(line) == line = <<>> \/ StartsWith(line, <<"#">>)

\* "if msgid_parts is None: assert line.startswith("msgid ")"
FirstLineCheck(st, i) ==
  IF st.msgid_parts = None /\ ~StartsWith(st.line, MSGID) THEN Fail(st, 83, Some(i + 1)) ELSE st

\* A variant of the skip in which a comment or empty line ends a continuation:
\* it closes the translation being accumulated.
ParseSkipResets(st) == [st EXCEPT !.msgstr_parts = IF @ = None THEN None ELSE Some(<<>>)]

\* The "continue" of a comment or empty line.
ParseSkip(st) == st

\* A variant of the loop body that passes over whatever precedes the first
\* msgid line instead of rejecting it.
ParseLineLenient(st0, i, line) ==
  LET st == [st0 EXCEPT !.line = line]
  IN  IF (st.line_first = None) # (st.msgid_parts = None) THEN Fail(st, 78, Some(i + 1 - 1))
      ELSE IF IsSkipped(line) THEN ParseSkip(st)
      ELSE IF st.msgid_parts = None /\ ~StartsWith(line, MSGID) THEN st
      ELSE LET b == ParseMsgid(st, i)
               c == IF b.err # None THEN b ELSE ParseMsgstr(b, i)
           IN  IF c.err # None THEN c ELSE ParseAppend(c)

\* One iteration of the loop of parse_po_data: line number i (0-based), text `line`.
ParseLine(st0, i, line) ==
  LET st == [st0 EXCEPT !.line = line]
  IN  IF (st.line_first = None) # (st.msgid_parts = None) THEN Fail(st, 78, Some(i + 1 - 1))
      ELSE IF IsSkipped(line) THEN ParseSkip(st)
      ELSE LET a == FirstLineCheck(st, i)
               b == IF a.err # None THEN a ELSE ParseMsgid(a, i)
               c == IF b.err # None THEN b ELSE ParseMsgstr(b, i)
           IN  IF c.err # None THEN c ELSE ParseAppend(c)

\* A variant of the end of parse_po_data without its two asserts.
ParseEndNoCheck(st, i) ==
  IF st.msgid_parts # None /\ st.msgstr_parts # None
    THEN [st EXCEPT !.translations =
            Append(@, Translation(Join(st.msgid_parts[1]), Join(st.msgstr_parts[1]),
                                  st.line_first))]
  ELSE st

\* The statements of parse_po_data after the loop; i is the last line's index.
ParseEnd(st, i) ==
  IF st.line_first = None THEN Fail(st, 109, None)
  ELSE IF (st.msgid_parts = None) # (st.msgstr_parts = None) THEN Fail(st, 110, Some(i + 1))
  ELSE IF st.msgid_parts # None
    THEN IF st.msgstr_parts = None THEN Fail(st, 112, None)
         ELSE [st EXCEPT !.translations =
                 Append(@, Translation(Join(st.msgid_parts[1]), Join(st.msgstr_parts[1]),
                                       st.line_first))]
  ELSE st

RECURSIVE ParseLoop(_, _, _)
\* The loop of parse_po_data over `lines`, the first of them having index i.
ParseLoop(st, i, lines) ==
  IF lines = <<>> \/ st.err # None THEN st
  ELSE ParseLoop(ParseLine(st, i, Head(lines)), i + 1, Tail(lines))

\* parse_po_data on the lines raw_data.split("\n"): [err, value].
parse_po_data(lines) ==
  LET st  == ParseLoop(ParseStart, 0, lines)
      fin == IF st.err # None THEN st ELSE ParseEnd(st, Len(lines) - 1)
  IN  [err |-> fin.err, value |-> IF fin.err # None THEN None ELSE Some(fin.translations)]

\* -------------------------------------------------------- lint_translations
\* The characters of the class [0-9a-zA-Z].
AlnumChars ==
  {"0", "1", "2", "3", "4", "5", "6", "7", "8", "9", "a", "b", "c", "d", "e", "f", "g",
   "h", "i", "j", "k", "l", "m", "n", "o", "p", "q", "r", "s", "t", "u", "v", "w", "x",
   "y", "z", "A", "B", "C", "D", "E", "F", "G", "H", "I", "J", "K", "L", "M", "N", "O",
   "P", "Q", "R", "S", "T", "U", "V", "W", "X", "Y", "Z"}

\* The class [0-9a-zA-Z_-] of RE_CMDLINE_OPTION.
OptionChars == AlnumChars \cup {"_", "-"}

\* The class [0-9a-zA-Z+-] of RE_PRINTFISH.
PrintfChars == AlnumChars \cup {"+", "-"}

RECURSIVE RunEnd(_, _, _)
\* The index of the last character of the longest run of characters of `class`
\* that starts at index p of s (p - 1 when there is none): a greedy "+".
RunEnd(s, p, class) ==
  IF p <= Len(s) /\ s[p] \in class THEN RunEnd(s, p + 1, class) ELSE p - 1

RECURSIVE FindallCmdlineNoLookbehind(_, _)
\* A variant of the pattern without its lookbehind: any hyphen starts a token.
FindallCmdlineNoLookbehind(s, p) ==
  IF p > Len(s) THEN <<>>
  ELSE IF s[p] = "-" /\ RunEnd(s, p + 1, OptionChars) >= p + 1
    THEN LET e == RunEnd(s, p + 1, OptionChars)
         IN  <<SubSeq(s, p, e)>> \o FindallCmdlineNoLookbehind(s, e + 1)
  ELSE FindallCmdlineNoLookbehind(s, p + 1)

RECURSIVE FindallCmdlineNotAfterPercent(_, _)
\* A variant of the pattern whose lookbehind also excludes the percent sign.
FindallCmdlineNotAfterPercent(s, p) ==
  IF p > Len(s) THEN <<>>
  ELSE IF /\ s[p] = "-"
          /\ (p = 1 \/ s[p - 1] \notin (OptionChars \cup {"%"}))
          /\ RunEnd(s, p + 1, OptionChars) >= p + 1
    THEN LET e == RunEnd(s, p + 1, OptionChars)
         IN  <<SubSeq(s, p, e)>> \o FindallCmdlineNotAfterPercent(s, e + 1)
  ELSE FindallCmdlineNotAfterPercent(s, p + 1)

RECURSIVE FindallCmdlineFrom(_, _)
\* RE_CMDLINE_OPTION.findall, scanning s from index p.
FindallCmdlineFrom(s, p) ==
  IF p > Len(s) THEN <<>>
  ELSE IF /\ s[p] = "-"
          /\ (p = 1 \/ s[p - 1] \notin OptionChars)
          /\ RunEnd(s, p + 1, OptionChars) >= p + 1
    THEN LET e == RunEnd(s, p + 1, OptionChars)
         IN  <<SubSeq(s, p, e)>> \o FindallCmdlineFrom(s, e + 1)
  ELSE FindallCmdlineFrom(s, p + 1)

\* RE_CMDLINE_OPTION.findall(s)
FindallCmdline(s) == FindallCmdlineFrom(s, 1)

RECURSIVE FindallPrintfFrom(_, _)
\* RE_PRINTFISH.findall, scanning s from index p.
FindallPrintfFrom(s, p) ==
  IF p > Len(s) THEN <<>>
  ELSE IF s[p] = "%" /\ RunEnd(s, p + 1, PrintfChars) >= p + 1
    THEN LET e == RunEnd(s, p + 1, PrintfChars)
         IN  <<SubSeq(s, p, e)>> \o FindallPrintfFrom(s, e + 1)
  ELSE FindallPrintfFrom(s, p + 1)

\* RE_PRINTFISH.findall(s)
FindallPrintf(s) == FindallPrintfFrom(s, 1)

\* The namedtuple Issue; the reason names the kind of mismatch and both token lists.
Issue(t, kind, in_msgid, in_msgstr) ==
  [translation |-> t,
   reason |-> [kind |-> kind, in_msgid |-> in_msgid, in_msgstr |-> in_msgstr]]

\* A variant of the loop body that compares the tokens as sets.
LintOneAsSets(t, printf) ==
  IF t.msgstr = <<>> THEN <<>>
  ELSE LET cmdline_msgid  == FindallCmdline(t.msgid)
           cmdline_msgstr == FindallCmdline(t.msgstr)
           printf_msgid   == IF printf THEN FindallPrintf(t.msgid) ELSE <<>>
           printf_msgstr  == IF printf THEN FindallPrintf(t.msgstr) ELSE <<>>
       IN  (IF {cmdline_msgid[k] : k \in DOMAIN cmdline_msgid} # {cmdline_msgstr[k] : k \in DOMAIN cmdline_msgstr}
              THEN <<Issue(t, "command-line options", cmdline_msgid, cmdline_msgstr)>>
              ELSE <<>>)
           \o
           (IF printf_msgid # printf_msgstr
              THEN <<Issue(t, "printf instructions", printf_msgid, printf_msgstr)>>
              ELSE <<>>)

\* A variant of the loop body that also lints untranslated entries.
LintOneNoSkip(t, printf) ==
  LET cmdline_msgid  == FindallCmdline(t.msgid)
           cmdline_msgstr == FindallCmdline(t.msgstr)
           printf_msgid   == IF printf THEN FindallPrintf(t.msgid) ELSE <<>>
           printf_msgstr  == IF printf THEN FindallPrintf(t.msgstr) ELSE <<>>
       IN  (IF cmdline_msgid # cmdline_msgstr
              THEN <<Issue(t, "command-line options", cmdline_msgid, cmdline_msgstr)>>
              ELSE <<>>)
           \o
           (IF printf_msgid # printf_msgstr
              THEN <<Issue(t, "printf instructions", printf_msgid, printf_msgstr)>>
              ELSE <<>>)

\* A variant of the loop body that ignores the lint_printf switch.
LintOneAlwaysPrintf(t, printf) ==
  IF t.msgstr = <<>> THEN <<>>
  ELSE LET cmdline_msgid  == FindallCmdline(t.msgid)
           cmdline_msgstr == FindallCmdline(t.msgstr)
           printf_msgid   == FindallPrintf(t.msgid)
           printf_msgstr  == FindallPrintf(t.msgstr)
       IN  (IF cmdline_msgid # cmdline_msgstr
              THEN <<Issue(t, "command-line options", cmdline_msgid, cmdline_msgstr)>>
              ELSE <<>>)
           \o
           (IF printf_msgid # printf_msgstr
              THEN <<Issue(t, "printf instructions", printf_msgid, printf_msgstr)>>
              ELSE <<>>)

\* A variant of the loop body that reports the printf mismatch first.
LintOnePrintfFirst(t, printf) ==
  IF t.msgstr = <<>> THEN <<>>
  ELSE LET cmdline_msgid  == FindallCmdline(t.msgid)
           cmdline_msgstr == FindallCmdline(t.msgstr)
           printf_msgid   == IF printf THEN FindallPrintf(t.msgid) ELSE <<>>
           printf_msgstr  == IF printf THEN FindallPrintf(t.msgstr) ELSE <<>>
       IN  (IF printf_msgid # printf_msgstr
              THEN <<Issue(t, "printf instructions", printf_msgid, printf_msgstr)>>
              ELSE <<>>)
           \o
           (IF cmdline_msgid # cmdline_msgstr
              THEN <<Issue(t, "command-line options", cmdline_msgid, cmdline_msgstr)>>
              ELSE <<>>)

\* The body of the loop of lint_translations: the issues of one translation.
LintOne(t, printf) ==
  IF t.msgstr = <<>> THEN <<>>
  ELSE LET cmdline_msgid  == FindallCmdline(t.msgid)
           cmdline_msgstr == FindallCmdline(t.msgstr)
           printf_msgid   == IF printf THEN FindallPrintf(t.msgid) ELSE <<>>
           printf_msgstr  == IF printf THEN FindallPrintf(t.msgstr) ELSE <<>>
       IN  (IF cmdline_msgid # cmdline_msgstr
              THEN <<Issue(t, "command-line options", cmdline_msgid, cmdline_msgstr)>>
              ELSE <<>>)
           \o
           (IF printf_msgid # printf_msgstr
              THEN <<Issue(t, "printf instructions", printf_msgid, printf_msgstr)>>
              ELSE <<>>)

RECURSIVE lint_translations(_, _)
\* lint_translations(translations, lint_printf)
lint_translations(ts, printf) ==
  IF ts = <<>> THEN <<>>
  ELSE LintOne(Head(ts), printf) \o lint_translations(Tail(ts), printf)

\* ------------------------------------------------------------------ run_on
\* What one print call of run_on formats: `at` is the source line of the call.
Printed(at, t, reason) == [at |-> at, t |-> t, reason |-> reason]

RECURSIVE PrintTranslations(_)
\* The loop "for t in translations" of run_on.
PrintTranslations(ts) ==
  IF ts = <<>> THEN <<>>
  ELSE <<Printed(155, Head(ts), None), Printed(156, Head(ts), None),
         Printed(157, Head(ts), None)>> \o PrintTranslations(Tail(ts))

RECURSIVE PrintIssues(_)
\* The loop "for issue in translation_issues" of run_on.
PrintIssues(issues) ==
  IF issues = <<>> THEN <<>>
  ELSE LET x == Head(issues)
       IN  <<Printed(161, x.translation, Some(x.reason)), Printed(162, x.translation, None),
             Printed(163, x.translation, None)>> \o PrintIssues(Tail(issues))

\* What run_on prints once parse_po_data has returned `translations`.
RunOnPrints(ts, show, printf) ==
  (IF show THEN PrintTranslations(ts) ELSE <<>>) \o PrintIssues(lint_translations(ts, printf))

\* ------------------------------------------------------------------- state
VARIABLES
  show_parsed_translations, \* args.show_parsed_translations
  lint_printf,              \* args.lint_printf
  raw_lines,                \* the lines of raw_data.split("\n") the loop has taken so far
  i,                        \* parse_po_data: index of the line last taken, -1 before the first
  line_first,               \* parse_po_data: Optional[int]
  msgid_parts,              \* parse_po_data: Optional[List[str]]
  msgstr_parts,             \* parse_po_data: Optional[List[str]]
  translations,             \* parse_po_data: List[Translation]
  err,                      \* the AssertionError raised, None when none was
  ret,                      \* what parse_po_data returned to run_on, None before it returns
  stdout,                   \* the print calls made by run_on
  pc,                       \* "loop", "parsed", "done", "raised"; "idle" when only unescape runs
  u_line,                   \* unescape: its argument
  u_pos,                    \* unescape: number of characters the loop has taken
  parts,                    \* unescape: List[str]
  is_quoted,                \* unescape
  is_escaping,              \* unescape
  u_err,                    \* unescape: source line of the assert that failed, None when none did
  u_ret,                    \* unescape: the value returned, None before it returns
  u_pc                      \* "loop", "returned", "raised"; "idle" when the parser runs

parse_vars ==
  <<show_parsed_translations, lint_printf, raw_lines, i, line_first, msgid_parts,
    msgstr_parts, translations, err, ret, stdout, pc>>

unescape_vars == <<u_line, u_pos, parts, is_quoted, is_escaping, u_err, u_ret, u_pc>>

VARIABLES
  l_translations,           \* lint_translations: the translations its loop has taken so far
  l_printf,                 \* lint_translations: its argument lint_printf
  issues,                   \* lint_translations: List[Issue]
  l_pc,                     \* "loop", "returned"; "idle"
  f_text,                   \* findall: the str searched
  f_pattern,                \* findall: "RE_CMDLINE_OPTION" or "RE_PRINTFISH"
  f_ret,                    \* findall: the list returned, None before it returns
  f_pc,                     \* "call", "returned"; "idle"
  r_files,                  \* run: args.filenames, each file as the lines of its text
  r_show,                   \* run: args.show_parsed_translations
  r_printf,                 \* run: args.lint_printf
  r_pos,                    \* run: number of files run_on has returned for
  r_stdout,                 \* run: what each run_on call printed, in order
  r_err,                    \* run: the AssertionError that ended the program, None when none did
  r_exit,                   \* the exit status of the process, None while it runs
  r_pc                      \* "loop", "exited", "raised"; "idle"

lint_vars == <<l_translations, l_printf, issues, l_pc>>

findall_vars == <<f_text, f_pattern, f_ret, f_pc>>

run_vars == <<r_files, r_show, r_printf, r_pos, r_stdout, r_err, r_exit, r_pc>>

\* The variables of lint_translations, findall and run, each run on its own.
rest_vars == <<lint_vars, findall_vars, run_vars>>

vars == <<parse_vars, unescape_vars, rest_vars>>

\* ------------------------------------------------------------------ inputs
\* All sequences over S of length at most n.
SeqsUpTo(S, n) == UNION {[1..k -> S] : k \in 0..n}

\* What follows the keyword, or stands alone, on a line of the catalog: an
\* empty literal, a literal with an option in it, an unterminated literal, text
\* outside quotes, a literal with an unknown escape.
Bodies ==
  {<<Q, Q>>, <<Q, "-", "a", Q>>, <<Q, "a">>, <<"a">>, <<Q, BS, "x", Q>>}

\* The lines a catalog is made of here: an empty line, a comment, and every
\* body behind "msgid ", behind "msgstr " and on its own.
Lines ==
  {<<>>, <<"#">> \o MSGID \o <<Q, Q>>}
    \cup {p \o b : p \in {<<>>, MSGID, MSGSTR}, b \in Bodies}

\* The characters of the strings that are escaped and decoded again.
StrChars == {BS, Q, TAB, NL, "t"}

Strings == SeqsUpTo(StrChars, MaxStrLen)

\* The characters of the lines handed to unescape.
LineChars == {Q, BS, "t", "n", "a"}

RECURSIVE EscapeChars(_)
\* Backslash, double quote, tab and newline replaced by their escapes.
EscapeChars(s) ==
  IF s = <<>> THEN <<>>
  ELSE LET c == Head(s)
       IN  (IF c = BS THEN <<BS, BS>>
            ELSE IF c = Q THEN <<BS, Q>>
            ELSE IF c = TAB THEN <<BS, "t">>
            ELSE IF c = NL THEN <<BS, "n">>
            ELSE <<c>>) \o EscapeChars(Tail(s))

\* The literal of s: escaped and wrapped in double quotes.
Escape(s) == <<Q>> \o EscapeChars(s) \o <<Q>>

UnescapeInputs == SeqsUpTo(LineChars, MaxLineLen) \cup {Escape(s) : s \in Strings}

\* ----------------------------------------------------- the parser's machine
ParseIdle ==
  /\ show_parsed_translations = FALSE
  /\ lint_printf = FALSE
  /\ raw_lines = <<>>
  /\ i = -1
  /\ line_first = None
  /\ msgid_parts = None
  /\ msgstr_parts = None
  /\ translations = <<>>
  /\ err = None
  /\ ret = None
  /\ stdout = <<>>
  /\ pc = "idle"

UnescapeIdle ==
  /\ u_line = <<>>
  /\ u_pos = 0
  /\ parts = <<>>
  /\ is_quoted = FALSE
  /\ is_escaping = FALSE
  /\ u_err = None
  /\ u_ret = None
  /\ u_pc = "idle"

LintIdle ==
  /\ l_translations = <<>>
  /\ l_printf = FALSE
  /\ issues = <<>>
  /\ l_pc = "idle"

FindallIdle ==
  /\ f_text = <<>>
  /\ f_pattern = "RE_CMDLINE_OPTION"
  /\ f_ret = None
  /\ f_pc = "idle"

RunIdle ==
  /\ r_files = <<>>
  /\ r_show = FALSE
  /\ r_printf = FALSE
  /\ r_pos = 0
  /\ r_stdout = <<>>
  /\ r_err = None
  /\ r_exit = None
  /\ r_pc = "idle"

RestIdle == LintIdle /\ FindallIdle /\ RunIdle

\* run_on has called parse_po_data, which is about to enter its loop.
Init ==
  /\ show_parsed_translations \in BOOLEAN
  /\ lint_printf \in BOOLEAN
  /\ raw_lines = <<>>
  /\ i = -1
  /\ line_first = ParseStart.line_first
  /\ msgid_parts = ParseStart.msgid_parts
  /\ msgstr_parts = ParseStart.msgstr_parts
  /\ translations = ParseStart.translations
  /\ err = None
  /\ ret = None
  /\ stdout = <<>>
  /\ pc = "loop"
  /\ UnescapeIdle
  /\ RestIdle

\* The locals of parse_po_data.
Locals ==
  [line_first |-> line_first, msgid_parts |-> msgid_parts, msgstr_parts |-> msgstr_parts,
   translations |-> translations, line |-> <<>>, err |-> None]

SetLocals(st) ==
  /\ line_first' = st.line_first
  /\ msgid_parts' = st.msgid_parts
  /\ msgstr_parts' = st.msgstr_parts
  /\ translations' = st.translations
  /\ err' = st.err

\* One iteration of the loop of parse_po_data, on the next line of the input.
ReadLine(line) ==
  /\ pc = "loop"
  /\ Len(raw_lines) < MaxLines
  /\ raw_lines' = Append(raw_lines, line)
  /\ i' = i + 1
  /\ LET st == ParseLine(Locals, i + 1, line)
     IN  /\ SetLocals(st)
         /\ pc' = IF st.err # None THEN "raised" ELSE "loop"
  /\ UNCHANGED <<show_parsed_translations, lint_printf, ret, stdout, unescape_vars, rest_vars>>

\* The input ends: the statements after the loop. str.split gives at least one
\* line, so the loop has run at least once.
EndOfInput ==
  /\ pc = "loop"
  /\ i >= 0
  /\ LET st == ParseEnd(Locals, i)
     IN  /\ SetLocals(st)
         /\ pc' = IF st.err # None THEN "raised" ELSE "parsed"
         /\ ret' = IF st.err # None THEN None ELSE Some(st.translations)
  /\ UNCHANGED <<show_parsed_translations, lint_printf, raw_lines, i, stdout, unescape_vars, rest_vars>>

\* A variant of run_on that catches the AssertionError and goes on with the
\* translations completed before it.
RunOnOutputPartial ==
  /\ pc \in {"parsed", "raised"}
  /\ stdout' = RunOnPrints(translations, show_parsed_translations, lint_printf)
  /\ pc' = IF pc = "raised" THEN "raised" ELSE "done"
  /\ UNCHANGED <<show_parsed_translations, lint_printf, raw_lines, i, line_first, msgid_parts,
                 msgstr_parts, translations, err, ret, unescape_vars, rest_vars>>

\* run_on after parse_po_data has returned: print the translations if asked
\* to, lint them and print the issues.
RunOnOutput ==
  /\ pc = "parsed"
  /\ stdout' = RunOnPrints(ret[1], show_parsed_translations, lint_printf)
  /\ pc' = "done"
  /\ UNCHANGED <<show_parsed_translations, lint_printf, raw_lines, i, line_first, msgid_parts,
                 msgstr_parts, translations, err, ret, unescape_vars, rest_vars>>

Next ==
  \/ \E line \in Lines : ReadLine(line)
  \/ EndOfInput
  \/ RunOnOutput

Spec == Init /\ [][Next]_vars

\* ------------------------------------------------------ unescape's machine
\* unescape has been called on a line and is about to enter its loop.
InitUnescape ==
  /\ ParseIdle
  /\ RestIdle
  /\ u_line \in UnescapeInputs
  /\ u_pos = 0
  /\ parts = UnescapeStart.parts
  /\ is_quoted = UnescapeStart.is_quoted
  /\ is_escaping = UnescapeStart.is_escaping
  /\ u_err = None
  /\ u_ret = None
  /\ u_pc = "loop"

\* One iteration of the loop of unescape.
UnescapeStep ==
  /\ u_pc = "loop"
  /\ u_pos < Len(u_line)
  /\ LET st == UnescapeChar([parts |-> parts, is_quoted |-> is_quoted,
                             is_escaping |-> is_escaping, err |-> None],
                            u_line[u_pos + 1])
     IN  /\ parts' = st.parts
         /\ is_quoted' = st.is_quoted
         /\ is_escaping' = st.is_escaping
         /\ u_err' = st.err
         /\ u_pc' = IF st.err # None THEN "raised" ELSE "loop"
  /\ u_pos' = u_pos + 1
  /\ UNCHANGED <<u_line, u_ret, parse_vars, rest_vars>>

\* The loop is over: the two asserts and the return.
UnescapeReturn ==
  /\ u_pc = "loop"
  /\ u_pos = Len(u_line)
  /\ LET r == UnescapeEnd([parts |-> parts, is_quoted |-> is_quoted,
                           is_escaping |-> is_escaping, err |-> None])
     IN  /\ u_err' = r.err
         /\ u_pc' = IF r.err # None THEN "raised" ELSE "returned"
         /\ u_ret' = IF r.err # None THEN None ELSE Some(r.value)
  /\ UNCHANGED <<u_line, u_pos, parts, is_quoted, is_escaping, parse_vars, rest_vars>>

NextUnescape == UnescapeStep \/ UnescapeReturn

SpecUnescape == InitUnescape /\ [][NextUnescape]_vars

\* ------------------------------------------------ lint_translations' machine
\* "-a -b"
AB == <<"-", "a", " ", "-", "b">>

\* "-b -a"
BA == <<"-", "b", " ", "-", "a">>

\* "-a -b -a"
ABA == <<"-", "a", " ", "-", "b", " ", "-", "a">>

\* "%s"
PS == <<"%", "s">>

\* "%-4d"
P4 == <<"%", "-", "4", "d">>

\* "%-5d"
P5 == <<"%", "-", "5", "d">>

\* The texts of the translations linted: none, options in two orders and with
\* a repetition, a format directive, and two directives that hold a hyphen.
LintTexts == {<<>>, AB, BA, ABA, PS, P4, P5}

\* lint_translations has been called and is about to enter its loop.
InitLint ==
  /\ ParseIdle
  /\ UnescapeIdle
  /\ FindallIdle
  /\ RunIdle
  /\ l_translations = <<>>
  /\ l_printf \in BOOLEAN
  /\ issues = <<>>
  /\ l_pc = "loop"

\* One iteration of the loop of lint_translations, on the next translation;
\* the k-th translation of a catalog begins on line 2k - 1 at the earliest.
LintStep(msgid, msgstr) ==
  /\ l_pc = "loop"
  /\ Len(l_translations) < MaxEntries
  /\ LET t == Translation(msgid, msgstr, Some(2 * Len(l_translations) + 1))
     IN  /\ l_translations' = Append(l_translations, t)
         /\ issues' = issues \o LintOne(t, l_printf)
  /\ UNCHANGED <<l_printf, l_pc, parse_vars, unescape_vars, findall_vars, run_vars>>

\* The loop is over: "return issues".
LintReturn ==
  /\ l_pc = "loop"
  /\ l_pc' = "returned"
  /\ UNCHANGED <<l_translations, l_printf, issues, parse_vars, unescape_vars, findall_vars,
                 run_vars>>

NextLint ==
  \/ \E msgid \in LintTexts, msgstr \in LintTexts : LintStep(msgid, msgstr)
  \/ LintReturn

SpecLint == InitLint /\ [][NextLint]_vars

\* --------------------------------------------------------- findall's machine
\* The characters of the texts searched: a hyphen, a letter, a blank, a percent sign.
TextChars == {"-", "a", " ", "%"}

\* The text of the in-line unit test of the two patterns.
TextOfUnitTest ==
  <<"-", "f", "o", "o", " ", "b", "a", "r", " ", "-", "-", "b", "a", "z", " ", "a", "n",
    "d", " ", "%", "q", "u", "u", "x", " ", "t", "h", "e", " ", "-", "4">>

TextWellKnown ==
  <<"w", "e", "l", "l", "-", "k", "n", "o", "w", "n", " ", "-", "4", " ", "-", "-", "b",
    "a", "z">>

\* Every short text, the two long ones, and two that tell the classes apart.
FindallTexts ==
  SeqsUpTo(TextChars, MaxTextLen)
    \cup {TextOfUnitTest, TextWellKnown, <<"a", "_", "-", "b", " ", "-", "a", "_", "b">>, <<"%", "+", "d", " ", "%", "_", "d">>}

\* findall of one of the two patterns has been called on a text.
InitFindall ==
  /\ ParseIdle
  /\ UnescapeIdle
  /\ LintIdle
  /\ RunIdle
  /\ f_text \in FindallTexts
  /\ f_pattern \in {"RE_CMDLINE_OPTION", "RE_PRINTFISH"}
  /\ f_ret = None
  /\ f_pc = "call"

\* The call returns the list of matches.
FindallCall ==
  /\ f_pc = "call"
  /\ f_ret' = Some(IF f_pattern = "RE_CMDLINE_OPTION" THEN FindallCmdline(f_text)
                   ELSE FindallPrintf(f_text))
  /\ f_pc' = "returned"
  /\ UNCHANGED <<f_text, f_pattern, parse_vars, unescape_vars, lint_vars, run_vars>>

NextFindall == FindallCall

SpecFindall == InitFindall /\ [][NextFindall]_vars

\* ------------------------------------------------------------ run's machine
\* A catalog with one entry whose translation drops the option.
FileWithIssue == <<MSGID \o <<Q, "-", "a", Q>>, MSGSTR \o <<Q, "a", Q>>, <<>>>>

\* A catalog with one entry whose translation keeps the option.
FileClean == <<MSGID \o <<Q, "-", "a", Q>>, MSGSTR \o <<Q, "-", "a", Q>>, <<>>>>

\* A catalog that ends after a msgid line.
FileMalformed == <<MSGID \o <<Q, "-", "a", Q>>, <<>>>>

Files == {FileWithIssue, FileClean, FileMalformed}

\* The arguments are parsed (one file at least) and run is about to enter its loop.
InitRun ==
  /\ ParseIdle
  /\ UnescapeIdle
  /\ LintIdle
  /\ FindallIdle
  /\ r_files \in SeqsUpTo(Files, MaxFiles) \ {<<>>}
  /\ r_show \in BOOLEAN
  /\ r_printf \in BOOLEAN
  /\ r_pos = 0
  /\ r_stdout = <<>>
  /\ r_err = None
  /\ r_exit = None
  /\ r_pc = "loop"

\* One iteration of the loop of run: run_on on the next file. An AssertionError
\* of parse_po_data is caught nowhere: it ends run_on, run and the process,
\* with the exit status 1 of an uncaught exception.
RunOnFile ==
  /\ r_pc = "loop"
  /\ r_pos < Len(r_files)
  /\ LET p == parse_po_data(r_files[r_pos + 1])
     IN  IF p.err # None
           THEN /\ r_pc' = "raised"
                /\ r_err' = p.err
                /\ r_exit' = Some(1)
                /\ UNCHANGED <<r_pos, r_stdout>>
           ELSE /\ r_stdout' = Append(r_stdout,
                                      [name |-> r_pos + 1,
                                       prints |-> RunOnPrints(p.value[1], r_show, r_printf)])
                /\ r_pos' = r_pos + 1
                /\ UNCHANGED <<r_pc, r_err, r_exit>>
  /\ UNCHANGED <<r_files, r_show, r_printf, parse_vars, unescape_vars, lint_vars, findall_vars>>

\* The loop of run is over: run returns and the script ends, with exit status 0.
RunReturn ==
  /\ r_pc = "loop"
  /\ r_pos = Len(r_files)
  /\ r_pc' = "exited"
  /\ r_exit' = Some(0)
  /\ UNCHANGED <<r_files, r_show, r_printf, r_pos, r_stdout, r_err, parse_vars, unescape_vars,
                 lint_vars, findall_vars>>

NextRun == RunOnFile \/ RunReturn

SpecRun == InitRun /\ [][NextRun]_vars

\* ================================================================== claims
\* What the claims say of an input, stated on the lines alone.

\* The 1-based numbers of the lines of `lines` that begin with "msgid ", ascending.
MsgidLineNumbers(lines) ==
  LET BeginsEntry(k) == StartsWith(lines[k], MSGID)
  IN  SelectSeq([k \in 1..Len(lines) |-> k], BeginsEntry)

\* A line without its leading keyword, decoded.
Decoded(line) ==
  unescape(IF StartsWith(line, MSGID) THEN StripPrefix(line, MSGID)
           ELSE IF StartsWith(line, MSGSTR) THEN StripPrefix(line, MSGSTR)
           ELSE line).value

RECURSIVE DecodedRange(_, _, _)
\* The decoded non-skipped lines among lines[from..to], in order.
DecodedRange(lines, from, to) ==
  IF from > to THEN <<>>
  ELSE (IF IsSkipped(lines[from]) THEN <<>> ELSE <<Decoded(lines[from])>>)
       \o DecodedRange(lines, from + 1, to)

\* The number of the first line in from..to that begins with "msgstr ", to + 1 if none does.
MsgstrLine(lines, from, to) ==
  IF \E k \in from..to : StartsWith(lines[k], MSGSTR)
    THEN CHOOSE k \in from..to :
           /\ StartsWith(lines[k], MSGSTR)
           /\ \A j \in from..(k - 1) : ~StartsWith(lines[j], MSGSTR)
  ELSE to + 1

\* The number of the last line of the k-th entry of `lines`.
EntryEnd(lines, k) ==
  LET ns == MsgidLineNumbers(lines)
  IN  IF k < Len(ns) THEN ns[k + 1] - 1 ELSE Len(lines)

\* The parse has succeeded: parse_po_data has returned.
Returned == pc \in {"parsed", "done"}

\* The step is one iteration of the loop, on the line raw_lines'[i'].
IsReadLine == pc = "loop" /\ raw_lines' # raw_lines

\* C1: when parse_po_data returns, the result has one entry per line that
\* begins with "msgid ", in the order of those lines, and the k-th entry's
\* line_first is the 1-based number of the k-th such line, blank and comment
\* lines counted; line_first increases strictly along the result.
C1_OneEntryPerMsgidLine ==
  Returned =>
    LET ns == MsgidLineNumbers(raw_lines)
    IN  /\ Len(ret[1]) = Len(ns)
        /\ \A k \in 1..Len(ns) : ret[1][k].line_first = Some(ns[k])
        /\ \A k \in 1..(Len(ret[1]) - 1) :
             ret[1][k].line_first[1] < ret[1][k + 1].line_first[1]

\* Two entries were returned, and a skipped line precedes them.
C1_Witness ==
  /\ Returned
  /\ Len(ret[1]) = 2
  /\ ret[1][1].line_first = Some(2)
  /\ ret[1][2].line_first = Some(4)
  /\ IsSkipped(raw_lines[1])

\* C2: every non-skipped line, without its keyword, is decoded by unescape and
\* appended to the translation accumulator if there is one and to the source
\* accumulator otherwise: while the parser runs, the source accumulator holds
\* the decoded lines from the open entry's msgid line up to its msgstr line,
\* the translation accumulator those from the msgstr line on; and each entry
\* returned has as msgid the concatenation of the former and as msgstr the
\* concatenation of the latter, up to the next msgid line or the end of input.
C2_AccumulatorsConcatenateDecodedLines ==
  LET ns == MsgidLineNumbers(raw_lines)
      n  == Len(raw_lines)
  IN  /\ (pc = "loop" /\ ns # <<>>) =>
           LET a == ns[Len(ns)]
               m == MsgstrLine(raw_lines, a, n)
           IN  /\ msgid_parts = Some(DecodedRange(raw_lines, a, m - 1))
               /\ msgstr_parts = IF m > n THEN None ELSE Some(DecodedRange(raw_lines, m, n))
      /\ Returned =>
           \A k \in 1..Len(ret[1]) :
             LET a == ns[k]
                 e == EntryEnd(raw_lines, k)
                 m == MsgstrLine(raw_lines, a, e)
             IN  /\ ret[1][k].msgid = Join(DecodedRange(raw_lines, a, m - 1))
                 /\ ret[1][k].msgstr = Join(DecodedRange(raw_lines, m, e))

\* An entry was returned whose msgid and whose msgstr both continue on a bare line.
C2_Witness ==
  /\ Returned
  /\ Len(raw_lines) = 4
  /\ Len(ret[1]) = 1
  /\ ret[1][1].msgid = <<"-", "a", "-", "a">>
  /\ ret[1][1].msgstr = <<"-", "a", "-", "a">>

\* The first line of `lines` that is not skipped, None if all are.
FirstContentLine(lines) ==
  IF \A k \in 1..Len(lines) : IsSkipped(lines[k]) THEN None
  ELSE Some(lines[CHOOSE k \in 1..Len(lines) :
                    /\ ~IsSkipped(lines[k])
                    /\ \A j \in 1..(k - 1) : IsSkipped(lines[j])])

\* C3: parse_po_data ends in a fatal format error whenever the first line that
\* is neither empty nor a comment does not begin with "msgid ".
C3_FirstContentLineMustBeMsgid ==
  LET first == FirstContentLine(raw_lines)
  IN  (first # None /\ ~StartsWith(first[1], MSGID)) =>
        /\ pc = "raised"
        /\ err # None
        /\ ret = None

\* The parse was aborted at a msgstr line that only skipped lines precede.
C3_Witness ==
  /\ pc = "raised"
  /\ Len(raw_lines) = 3
  /\ IsSkipped(raw_lines[1])
  /\ IsSkipped(raw_lines[2])
  /\ StartsWith(raw_lines[3], MSGSTR)

\* The entry the parser holds open, as it is appended to the output.
OpenEntry == Translation(Join(msgid_parts[1]), Join(msgstr_parts[1]), line_first)

\* C4: a msgid line that arrives while an entry is open whose translation has
\* not been started is a fatal format error; a msgid line is accepted only
\* when no entry is open or the open entry's translation accumulator exists,
\* and then the open entry, if any, is appended to the output; no other line
\* of the loop appends to the output.
C4_MsgidLineClosesCompleteEntry ==
  [][IsReadLine =>
       LET line == raw_lines'[Len(raw_lines')]
       IN  IF ~IsSkipped(line) /\ StartsWith(line, MSGID)
             THEN /\ (msgid_parts # None /\ msgstr_parts = None) =>
                       (pc' = "raised" /\ err' # None /\ translations' = translations)
                  /\ pc' = "loop" => (msgid_parts = None \/ msgstr_parts # None)
                  /\ (msgid_parts # None /\ msgstr_parts # None) =>
                       translations' = Append(translations, OpenEntry)
                  /\ msgid_parts = None => translations' = translations
           ELSE translations' = translations]_vars

\* A second msgid line was accepted and closed the first entry.
C4_Witness ==
  /\ pc = "loop"
  /\ Len(translations) = 1
  /\ msgid_parts # None
  /\ msgstr_parts = None
  /\ line_first = Some(3)

\* C5: a msgstr line is accepted only when the source accumulator exists and
\* the translation accumulator does not; a second msgstr line of an entry, or
\* one before any msgid line, is a fatal format error. An accepted msgstr line
\* creates the translation accumulator, which takes that line's decoded rest
\* and every later bare line of the entry, the source accumulator unchanged.
C5_MsgstrLineStartsTranslationOnce ==
  [][IsReadLine =>
       LET line == raw_lines'[Len(raw_lines')]
       IN  IF IsSkipped(line) \/ StartsWith(line, MSGID) THEN TRUE
           ELSE IF StartsWith(line, MSGSTR)
             THEN /\ pc' = "loop" => (msgid_parts # None /\ msgstr_parts = None)
                  /\ (msgid_parts = None \/ msgstr_parts # None) =>
                       (pc' = "raised" /\ err' # None)
                  /\ pc' = "loop" =>
                       /\ msgstr_parts' = Some(<<Decoded(line)>>)
                       /\ msgid_parts' = msgid_parts
           ELSE (pc' = "loop" /\ msgstr_parts # None) =>
                  /\ msgstr_parts' = Some(Append(msgstr_parts[1], Decoded(line)))
                  /\ msgid_parts' = msgid_parts]_vars

\* A translation was started and a bare line after it went to it.
C5_Witness ==
  /\ pc = "loop"
  /\ msgstr_parts # None
  /\ Len(msgstr_parts[1]) = 2
  /\ Len(msgid_parts[1]) = 1

\* parse_po_data has reached the statements after its loop.
AtEndOfInput ==
  \/ Returned
  \/ (pc = "raised" /\ err[1].at \in {109, 110, 112})

\* C6: at the end of input parse_po_data fails if no msgid line was seen or if
\* the last entry's translation was never started; a parse that succeeds
\* returns at least one entry, the last of them the entry that was open.
C6_EndOfInputNeedsCompleteEntry ==
  LET ns == MsgidLineNumbers(raw_lines)
      n  == Len(raw_lines)
  IN  /\ (AtEndOfInput /\ (ns = <<>> \/ MsgstrLine(raw_lines, ns[Len(ns)], n) > n)) =>
           (pc = "raised" /\ ret = None)
      /\ Returned =>
           /\ ret[1] # <<>>
           /\ ret[1] = translations
           /\ ret[1][Len(ret[1])] = OpenEntry

\* The input ended after a complete entry and a msgid line with no msgstr line.
C6_Witness ==
  /\ pc = "raised"
  /\ err[1].at = 110
  /\ Len(translations) = 1
  /\ msgstr_parts = None

\* C7: every fatal error raised while parsing reports the 1-based number of
\* the offending line: the line the loop was on, or the last line when the
\* error is found at the end of input.
C7_EveryErrorReportsItsLine ==
  pc = "raised" => err[1].line = Some(i + 1)

\* C8: a fatal format error aborts the whole parse: parse_po_data returns
\* nothing, not even the entries completed before the offending line, and
\* run_on prints neither translations nor issues.
C8_ErrorYieldsNoEntriesAndNoOutput ==
  /\ pc = "raised" => (ret = None /\ stdout = <<>>)
  /\ stdout # <<>> => (pc = "done" /\ err = None)

\* The parse was aborted after an entry with an issue had been completed.
C8_Witness ==
  /\ pc = "raised"
  /\ Len(translations) = 1
  /\ lint_translations(translations, lint_printf) # <<>>

\* The lines of `lines` that are not skipped.
NonSkipped(lines) ==
  LET Kept(line) == ~IsSkipped(line)
  IN  SelectSeq(lines, Kept)

\* The msgid and msgstr of each translation, without line_first.
Texts(ts) == [k \in 1..Len(ts) |-> <<ts[k].msgid, ts[k].msgstr>>]

\* C9: an empty line or a comment changes none of line_first, the two
\* accumulators and the output, in any parser state; so the input without its
\* skipped lines is accepted or rejected as the input is, and gives the same
\* msgid and msgstr for every entry (line_first aside).
C9_SkippedLinesChangeNothing ==
  /\ [][(IsReadLine /\ IsSkipped(raw_lines'[Len(raw_lines')])) =>
          UNCHANGED <<line_first, msgid_parts, msgstr_parts, translations, err, ret,
                      stdout, pc>>]_vars
  /\ [](LET bare == NonSkipped(raw_lines)
            st   == ParseLoop(ParseStart, 0, bare)
            r    == parse_po_data(bare)
        IN  /\ pc = "loop" =>
                 /\ st.err = None
                 /\ st.msgid_parts = msgid_parts
                 /\ st.msgstr_parts = msgstr_parts
                 /\ Texts(st.translations) = Texts(translations)
            /\ pc = "raised" => r.err # None
            /\ Returned =>
                 /\ r.err = None
                 /\ Texts(r.value[1]) = Texts(ret[1]))

\* A parse succeeded with a skipped line between a keyword line and its
\* continuation line.
C9_Witness ==
  /\ Returned
  /\ \E k \in 2..(Len(raw_lines) - 1) :
       /\ IsSkipped(raw_lines[k])
       /\ ~IsSkipped(raw_lines[k - 1])
       /\ ~IsSkipped(raw_lines[k + 1])
       /\ ~StartsWith(raw_lines[k + 1], MSGID)
       /\ ~StartsWith(raw_lines[k + 1], MSGSTR)

\* C10: unescape undoes escaping: on the literal of any string s (backslash,
\* double quote, tab and newline escaped, the whole in double quotes) it fails
\* no assert and returns s; between the two outer quotes it stays inside
\* quotes, so an escaped quote is emitted and does not close the literal.
C10_UnescapeInvertsEscape ==
  \A s \in Strings :
    u_line = Escape(s) =>
      /\ u_pc # "raised"
      /\ u_pc = "returned" => u_ret = Some(s)
      /\ (u_pc = "loop" /\ 1 <= u_pos /\ u_pos < Len(u_line)) => is_quoted

\* unescape returned a string that holds a double quote and a backslash.
C10_Witness ==
  /\ u_pc = "returned"
  /\ u_ret = Some(<<Q, BS>>)
  /\ u_line = <<Q, BS, Q, BS, BS, Q>>

RECURSIVE BackslashesBefore(_, _)
\* The number of consecutive backslashes that end right before index k of line.
BackslashesBefore(line, k) ==
  IF k > 1 /\ line[k - 1] = BS THEN 1 + BackslashesBefore(line, k - 1) ELSE 0

\* The character at index k follows a backslash that is not itself escaped.
EscapedAt(line, k) == BackslashesBefore(line, k) % 2 = 1

\* The character at index k is a double quote that opens or closes a literal.
IsDelimiter(line, k) == line[k] = Q /\ ~EscapedAt(line, k)

\* The place k of line (a character, or the end of the line) is inside quotes.
InsideAt(line, k) ==
  Cardinality({j \in 1..(k - 1) : IsDelimiter(line, j)}) % 2 = 1

\* The line is one that the decoder must reject.
MustFail(line) ==
  \/ \E k \in 1..Len(line) : line[k] # Q /\ ~InsideAt(line, k)
  \/ \E k \in 1..(Len(line) - 1) :
       /\ InsideAt(line, k)
       /\ line[k] = BS
       /\ ~EscapedAt(line, k)
       /\ line[k + 1] \notin {"t", "n", BS, Q}
  \/ InsideAt(line, Len(line) + 1)
  \/ EscapedAt(line, Len(line) + 1)

RECURSIVE ContentFrom(_, _)
\* The decoded content of the quoted segments of line from index k on.
ContentFrom(line, k) ==
  IF k > Len(line) THEN <<>>
  ELSE (IF ~InsideAt(line, k) THEN <<>>
        ELSE IF EscapedAt(line, k)
          THEN <<CASE line[k] = "t" -> TAB [] line[k] = "n" -> NL [] OTHER -> line[k]>>
        ELSE IF line[k] \in {Q, BS} THEN <<>>
        ELSE <<line[k]>>) \o ContentFrom(line, k + 1)

\* C11: unescape fails exactly when the line holds a character other than a
\* double quote outside quotes, or inside quotes a backslash followed by a
\* character other than t, n, backslash or double quote, or ends inside quotes
\* or in the middle of an escape; on every other line, the empty one and one of
\* several adjacent literals included, it returns their decoded content.
C11_UnescapeFailsExactlyOnMalformedLines ==
  /\ u_pc = "raised" => (MustFail(u_line) /\ u_ret = None)
  /\ u_pc = "returned" => (~MustFail(u_line) /\ u_ret = Some(ContentFrom(u_line, 1)))
  /\ u_pc \in {"raised", "returned"} => (u_err # None <=> u_pc = "raised")

\* unescape returned the content of two adjacent literals.
C11_Witness ==
  /\ u_pc = "returned"
  /\ u_line = <<Q, "a", Q, Q, Q>>
  /\ u_ret = Some(<<"a">>)

\* The indices of the issues of kind `kind` that refer to the translation t.
IssuesOf(t, kind) ==
  {j \in 1..Len(issues) : issues[j].translation = t /\ issues[j].reason.kind = kind}

\* C12: for every translation with a non-empty msgstr, lint_translations emits
\* a command-line-option issue if and only if the flag tokens of msgid and of
\* msgstr differ as sequences (a different order or a different number of
\* repetitions suffices), it emits one at most, and its reason names both
\* sequences.
C12_OptionIssueIffTokenSequencesDiffer ==
  \A k \in 1..Len(l_translations) :
    LET t    == l_translations[k]
        a    == FindallCmdline(t.msgid)
        b    == FindallCmdline(t.msgstr)
        mine == IssuesOf(t, "command-line options")
    IN  t.msgstr # <<>> =>
          /\ mine # {} <=> a # b
          /\ Cardinality(mine) <= 1
          /\ \A j \in mine : /\ issues[j].reason.in_msgid = a
                             /\ issues[j].reason.in_msgstr = b

\* Two issues were returned: one for the same options in another order, one
\* for the same options with one of them repeated.
C12_Witness ==
  /\ l_pc = "returned"
  /\ ~l_printf
  /\ Len(l_translations) = 2
  /\ l_translations[1].msgid = AB /\ l_translations[1].msgstr = BA
  /\ l_translations[2].msgid = AB /\ l_translations[2].msgstr = ABA
  /\ Len(issues) = 2

\* C13: lint_translations emits no issue for a translation whose msgstr is
\* empty, whatever its msgid holds and whether or not printf linting is on;
\* every issue refers to a translation of the input with a non-empty msgstr.
C13_NoIssueForEmptyMsgstr ==
  /\ \A k \in 1..Len(l_translations) :
       l_translations[k].msgstr = <<>> =>
         \A j \in 1..Len(issues) : issues[j].translation # l_translations[k]
  /\ \A j \in 1..Len(issues) :
       /\ \E k \in 1..Len(l_translations) : issues[j].translation = l_translations[k]
       /\ issues[j].translation.msgstr # <<>>

\* With printf linting on, an untranslated entry with options and one with
\* a directive were linted without an issue.
C13_Witness ==
  /\ l_pc = "returned"
  /\ l_printf
  /\ Len(l_translations) = 2
  /\ l_translations[1].msgid = AB /\ l_translations[1].msgstr = <<>>
  /\ l_translations[2].msgid = PS /\ l_translations[2].msgstr = <<>>
  /\ issues = <<>>

\* C14: with lint_printf false lint_translations emits no printf issue; with
\* lint_printf true it emits one for a translation with a non-empty msgstr if
\* and only if the format tokens of msgid and msgstr differ as sequences,
\* whether or not the flag tokens match.
C14_PrintfIssueOnlyWhenEnabled ==
  /\ ~l_printf => \A j \in 1..Len(issues) : issues[j].reason.kind # "printf instructions"
  /\ l_printf =>
       \A k \in 1..Len(l_translations) :
         LET t    == l_translations[k]
             a    == FindallPrintf(t.msgid)
             b    == FindallPrintf(t.msgstr)
             mine == IssuesOf(t, "printf instructions")
         IN  t.msgstr # <<>> =>
               /\ mine # {} <=> a # b
               /\ Cardinality(mine) <= 1
               /\ \A j \in mine : /\ issues[j].reason.in_msgid = a
                                  /\ issues[j].reason.in_msgstr = b

\* With printf linting on: an option issue alone for an entry whose options
\* differ, and a printf issue alone for one whose options agree.
C14_Witness ==
  /\ l_pc = "returned"
  /\ l_printf
  /\ Len(l_translations) = 2
  /\ l_translations[1].msgid = AB /\ l_translations[1].msgstr = BA
  /\ l_translations[2].msgid = <<>> /\ l_translations[2].msgstr = PS
  /\ Len(issues) = 2
  /\ issues[1].reason.kind = "command-line options"
  /\ issues[2].reason.kind = "printf instructions"

\* C15: the issues follow the order of the translations, each translation
\* gives two issues at most, and of the two issues of one translation the
\* command-line-option issue comes first.
C15_IssuesFollowEntryOrder ==
  /\ \A j \in 1..Len(issues) :
       \E k \in 1..Len(l_translations) : issues[j].translation = l_translations[k]
  /\ \A j1, j2 \in 1..Len(issues) :
       j1 < j2 =>
         /\ issues[j1].translation.line_first[1] <= issues[j2].translation.line_first[1]
         /\ issues[j1].translation = issues[j2].translation =>
              /\ issues[j1].reason.kind = "command-line options"
              /\ issues[j2].reason.kind = "printf instructions"
  /\ \A k \in 1..Len(l_translations) :
       Cardinality({j \in 1..Len(issues) : issues[j].translation = l_translations[k]}) <= 2

\* Two translations gave two issues each.
C15_Witness ==
  /\ l_pc = "returned"
  /\ Len(l_translations) = 2
  /\ Len(issues) = 4
  /\ issues[2].translation = l_translations[1]
  /\ issues[3].translation = l_translations[2]

\* The start of a flag token in s: a hyphen, not preceded by an alphanumeric,
\* an underscore or a hyphen, and followed by one of these.
IsTokenStart(s, p) ==
  /\ s[p] = "-"
  /\ (p = 1 \/ s[p - 1] \notin AlnumChars \cup {"_", "-"})
  /\ p < Len(s)
  /\ s[p + 1] \in AlnumChars \cup {"_", "-"}

\* The end of the longest run of alphanumerics, underscores and hyphens after index p.
TokenEnd(s, p) ==
  CHOOSE e \in (p + 1)..Len(s) :
    /\ \A j \in (p + 1)..e : s[j] \in AlnumChars \cup {"_", "-"}
    /\ (e = Len(s) \/ s[e + 1] \notin AlnumChars \cup {"_", "-"})

RECURSIVE TokensFrom(_, _)
\* The flag tokens of s that start at index p or later, left to right.
TokensFrom(s, p) ==
  IF p > Len(s) THEN <<>>
  ELSE (IF IsTokenStart(s, p) THEN <<SubSeq(s, p, TokenEnd(s, p))>> ELSE <<>>)
       \o TokensFrom(s, p + 1)

\* C16: RE_CMDLINE_OPTION.findall returns, left to right and without overlap,
\* every maximal run that starts with a hyphen not preceded by an
\* alphanumeric, underscore or hyphen and goes on with one or more such
\* characters: the hyphen of "well-known" starts no token, a lone hyphen is no
\* token, "--baz" is one token.
C16_FlagTokensAreMaximalRuns ==
  (f_pc = "returned" /\ f_pattern = "RE_CMDLINE_OPTION") =>
    /\ f_ret = Some(TokensFrom(f_text, 1))
    /\ \A p, q \in 1..Len(f_text) :
         (IsTokenStart(f_text, p) /\ IsTokenStart(f_text, q) /\ p < q) =>
           TokenEnd(f_text, p) < q
    /\ f_text = TextWellKnown => f_ret = Some(<<<<"-", "4">>, <<"-", "-", "b", "a", "z">>>>)
    /\ f_text = TextOfUnitTest => f_ret = Some(<<<<"-", "f", "o", "o">>, <<"-", "-", "b", "a", "z">>, <<"-", "4">>>>)
    /\ f_text = <<"-">> => f_ret = Some(<<>>)

\* The tokens of "well-known -4 --baz" were returned.
C16_Witness ==
  /\ f_pc = "returned"
  /\ f_pattern = "RE_CMDLINE_OPTION"
  /\ f_text = TextWellKnown
  /\ Len(f_ret[1]) = 2

\* The issues that refer to the translation t, in order.
IssuesFor(t) ==
  LET Mine(x) == x.translation = t
  IN  SelectSeq(issues, Mine)

\* C20: the two token classes overlap: the hyphen after a percent sign starts
\* a flag token, so "%-4d" holds the flag token "-4d" and the format token
\* "%-4d". A translation with msgid "%-4d" and msgstr "%-5d" gives a
\* command-line-option issue when lint_printf is false, and that issue and a
\* printf issue when it is true.
C20_DirectiveWithHyphenIsAlsoAnOption ==
  \A k \in 1..Len(l_translations) :
    LET t == l_translations[k]
    IN  (t.msgid = P4 /\ t.msgstr = P5) =>
          IssuesFor(t) =
            <<Issue(t, "command-line options", <<<<"-", "4", "d">>>>, <<<<"-", "5", "d">>>>)>>
            \o (IF l_printf
                  THEN <<Issue(t, "printf instructions", <<P4>>, <<P5>>)>>
                  ELSE <<>>)

\* With printf linting off, the one translation "%-4d" / "%-5d" gave one issue.
C20_Witness ==
  /\ l_pc = "returned"
  /\ ~l_printf
  /\ Len(l_translations) = 1
  /\ l_translations[1].msgid = P4
  /\ l_translations[1].msgstr = P5
  /\ Len(issues) = 1

\* The program has ended, by the return of run or by an uncaught AssertionError.
ProgramEnded == r_pc \in {"exited", "raised"}

\* run_on has printed for the k-th file what a run on that file alone prints.
FileWasProcessed(k) ==
  \E j \in 1..Len(r_stdout) :
    /\ r_stdout[j].name = k
    /\ r_stdout[j].prints = RunOnPrints(parse_po_data(r_files[k]).value[1], r_show, r_printf)

\* C17: when run is given several files and one of them is malformed, the
\* other files are processed as if it were not there: when the program has
\* ended, every well-formed file, also one listed after the malformed one, has
\* been parsed and linted and its issues printed.
C17_OtherFilesAreStillProcessed ==
  ProgramEnded =>
    \A k \in 1..Len(r_files) :
      parse_po_data(r_files[k]).err = None => FileWasProcessed(k)

\* run_on has printed an issue.
FoundIssues ==
  \E j \in 1..Len(r_stdout) :
    \E m \in 1..Len(r_stdout[j].prints) : r_stdout[j].prints[m].at = 161

\* C18: the outcome tells three cases apart: a fatal format error, a run that
\* found issues, a clean run. A fatal error does not end like a run that
\* completed, a clean run ends with exit status 0, and a run that found an
\* issue does not end with the exit status of a clean run.
C18_ExitStatusTellsIssuesFromClean ==
  /\ r_pc = "raised" => r_exit \notin {None, Some(0)}
  /\ (r_pc = "exited" /\ ~FoundIssues) => r_exit = Some(0)
  /\ (r_pc = "exited" /\ FoundIssues) => r_exit \notin {None, Some(0)}

\* C19: at the top of the loop of parse_po_data the translation accumulator
\* exists only if the source accumulator does, and line_first is set if and
\* only if the source accumulator exists, so the assert of line 78 never
\* fires; once a msgid line is accepted the source accumulator never goes back
\* to None.
C19_AccumulatorsAreConsistent ==
  /\ [](pc = "loop" =>
          /\ msgstr_parts # None => msgid_parts # None
          /\ line_first # None <=> msgid_parts # None)
  /\ [](err # None => err[1].at # 78)
  /\ [][msgid_parts # None => msgid_parts' # None]_vars

\* The loop is in its second entry, inside the translation.
C19_Witness ==
  /\ pc = "loop"
  /\ Len(translations) = 1
  /\ msgid_parts # None
  /\ msgstr_parts # None
  /\ line_first = Some(3)

====
